---- MODULE Spec2Model ----
(***************************************************************************)
(* Model of ifs_physics_common: the dimension symbols and their intern     *)
(* table (grid.py), the concretization of symbols into grids (grid.py),    *)
(* and the pool of temporary storages (storage.py).                        *)
(*                                                                         *)
(* Numbers.  Offsets are multiples of 1/2, so every number that reaches    *)
(* hash() as a constructor argument is kept in half-steps (H(n) = 2n for   *)
(* an integer n, offset 0.5 is 1): numerically equal arguments (0 and 0.0, *)
(* 1 and 1.0) are then the same value, as they are for Python's hash and   *)
(* ==.  Fields of objects keep axis, direction and size in units and the   *)
(* offset in half-steps.                                                   *)
(***************************************************************************)
EXTENDS Integers, Sequences, FiniteSets, TLC

VARIABLES
    DIM_INSTANCES,   \* grid.py:31, the intern table: hash(args) -> object
    heap,            \* every dimension object created so far
    last,            \* the last expression evaluated and what it returned
    gridIn,          \* the arguments of Grid(abstract_dims, grid_config)
    grid,            \* the Grid built from them, None before
    memo,            \* the lru_cache of the Grid's get_storage_* methods
    computational_grid,      \* the ComputationalGrid the storages are defined over
    arrays,                  \* every array gt_zeros has allocated; a storage is its index
    TEMPORARY_STORAGE_POOL,  \* storage.py:121: grid_hash -> list of storages
    scopes,                  \* the context managers entered and not yet left, innermost last
    properties,              \* the property dictionary of a component, insertion-ordered
    STENCIL_COLLECTION,      \* stencil.py:32: name -> the definition registered under it
    decorators               \* the decorators stencil_collection(name) has returned

dimVars == <<DIM_INSTANCES, heap>>
gridVars == <<gridIn, grid, memo>>
poolVars == <<computational_grid, arrays, TEMPORARY_STORAGE_POOL, scopes>>
stencilVars == <<STENCIL_COLLECTION, decorators>>
frameworkVars == <<properties, stencilVars>>
\* what the expressions over dimension symbols leave alone
nonDimVars == <<gridVars, poolVars, frameworkVars>>
vars == <<DIM_INSTANCES, heap, last, gridIn, grid, memo,
          computational_grid, arrays, TEMPORARY_STORAGE_POOL, scopes,
          properties, STENCIL_COLLECTION, decorators>>

----------------------------------------------------------------------------
(* Bounds of the model *)

\* entries added to the intern table after the import of grid.py
MaxNew == 2
\* largest point count of a grid configuration
MaxN == 2
\* arrays allocated by gt_zeros
MaxAlloc == 3
\* context managers entered and not yet left
MaxDepth == 2
\* (grid_dims, dtype_name) pairs of one managed_temporary_storage call
MaxArgs == 2
\* decorators stencil_collection has returned
MaxDecorators == 2

\* the name of the symbols the expressions are about, and the arguments the
\* constructor calls draw from (axis 3 and size 0 fail an assertion; offsets
\* and shifts are in half-steps)
Names == {"K"}
AxisArgs == {2, 3}
OffsetArgs == -1 .. 2
DirectionArgs == {-1, 1}
SizeArgs == {0, 1, 2}
\* the real numbers a symbol is shifted by, in half-steps
Deltas == -2 .. 2
\* the integers a data dimension is indexed by
IndexArgs == -2 .. 1

----------------------------------------------------------------------------
(* Python values *)

H(n) == 2 * n
None == <<>>
Some(n) == <<n>>
NoObj == [id |-> None]

Abs(n) == IF n < 0 THEN -n ELSE n
Max(a, b) == IF a >= b THEN a ELSE b
Min(a, b) == IF a <= b THEN a ELSE b

\* hash of a number (in half-steps): CPython hashes -1 to -2, every other
\* number used here to a value of its own
HashNum(h) == IF h = H(-1) THEN H(-2) ELSE h

\* hash of an argument tuple (name, number, number, number-or-None); the
\* combination of the elements' hashes is taken to be injective
PyHash(args) ==
    [i \in 1 .. Len(args) |->
        IF i = 1 THEN args[1]
        ELSE IF i = 4
             THEN (IF args[4] = None THEN None ELSE Some(HashNum(args[4][1])))
             ELSE HashNum(args[i])]

----------------------------------------------------------------------------
(* Dimension symbols: grid.py, AbstractGridDim and DataDim under MetaDim *)

\* AbstractGridDim.__init__: the fields, or the failure of an assertion
AbstractGridDim_init(args) ==
    LET axis == args[2]
        offset == IF Len(args) >= 3 THEN args[3] ELSE 0
        direction == IF Len(args) >= 4 THEN args[4][1] ELSE H(1)
    IN  IF axis \in {H(0), H(1), H(2)} /\ offset \in {-1, 0, 1}
        THEN [ok |-> TRUE,
              v |-> [cls |-> "AbstractGridDim", name |-> args[1],
                     axis |-> axis \div 2, offset |-> offset,
                     direction |-> direction \div 2]]
        ELSE [ok |-> FALSE]

\* DataDim.__init__
DataDim_init(args) ==
    LET size == args[2]
        direction == IF Len(args) >= 3 THEN args[3] ELSE H(1)
        index == IF Len(args) >= 4 /\ args[4] # None THEN Some(args[4][1] \div 2)
                 ELSE None
    IN  IF size > 0
        THEN [ok |-> TRUE,
              v |-> [cls |-> "DataDim", name |-> args[1], size |-> size \div 2,
                     direction |-> direction \div 2, index |-> index]]
        ELSE [ok |-> FALSE]

\* type.__call__: a new object, told from every other object by the call
\* that created it
NewObject(hp, cls, args, v) ==
    [id |-> <<cls, args, Cardinality({o \in hp : o.id[1] = cls /\ o.id[2] = args})>>,
     v |-> v]

\* MetaDim.__call__ without the test "key not in DIM_INSTANCES": every call
\* creates an object and stores it
MetaDim_call_AlwaysNew(tab, hp, cls, args) ==
    LET key == PyHash(args)
        r == IF cls = "AbstractGridDim" THEN AbstractGridDim_init(args)
             ELSE DataDim_init(args)
    IN  IF r.ok
        THEN LET obj == NewObject(hp, cls, args, r.v)
                 tab2 == (key :> obj) @@ tab
             IN  [ok |-> TRUE, obj |-> tab2[key], tab |-> tab2, heap |-> hp \cup {obj}]
        ELSE [ok |-> FALSE, obj |-> NoObj, tab |-> tab, heap |-> hp]

\* MetaDim.__call__
MetaDim_call(tab, hp, cls, args) ==
    LET key == PyHash(args) IN
    IF key \in DOMAIN tab
    THEN [ok |-> TRUE, obj |-> tab[key], tab |-> tab, heap |-> hp]
    ELSE LET r == IF cls = "AbstractGridDim" THEN AbstractGridDim_init(args)
                  ELSE DataDim_init(args)
         IN  IF r.ok
             THEN LET obj == NewObject(hp, cls, args, r.v)
                      tab2 == (key :> obj) @@ tab
                  IN  [ok |-> TRUE, obj |-> tab2[key], tab |-> tab2,
                       heap |-> hp \cup {obj}]
             ELSE [ok |-> FALSE, obj |-> NoObj, tab |-> tab, heap |-> hp]

\* AbstractGridDim.__add__, other in half-steps
AbstractGridDim_add(tab, hp, self, other) ==
    MetaDim_call(tab, hp, "AbstractGridDim",
                 <<self.v.name, H(self.v.axis), self.v.offset + other>>)

\* AbstractGridDim.__sub__
AbstractGridDim_sub(tab, hp, self, other) ==
    AbstractGridDim_add(tab, hp, self, -other)

\* AbstractGridDim.__neg__
AbstractGridDim_neg(tab, hp, self) ==
    MetaDim_call(tab, hp, "AbstractGridDim",
                 <<self.v.name, H(self.v.axis), self.v.offset,
                   Some(H(-self.v.direction))>>)

\* AbstractGridDim.__eq__ that leaves the direction out of the comparison
AbstractGridDim_eq_NoDirection(self, other) ==
    IF other.v.cls = "AbstractGridDim"
    THEN /\ self.v.name = other.v.name
         /\ self.v.axis = other.v.axis
         /\ self.v.offset = other.v.offset
    ELSE FALSE

\* AbstractGridDim.__eq__ with another dimension object
AbstractGridDim_eq(self, other) ==
    IF other.v.cls = "AbstractGridDim"
    THEN /\ self.v.name = other.v.name
         /\ self.v.axis = other.v.axis
         /\ self.v.offset = other.v.offset
         /\ self.v.direction = other.v.direction
    ELSE FALSE

\* AbstractGridDim.__hash__
AbstractGridDim_hash(self) ==
    <<self.v.name, HashNum(H(self.v.axis)), HashNum(self.v.offset),
      HashNum(H(self.v.direction))>>

\* AbstractGridDim.__repr__: the parts of the string
AbstractGridDim_repr(self) ==
    IF self.v.offset > 0 THEN <<self.v.name, " + ", "0.5">>
    ELSE IF self.v.offset < 0 THEN <<self.v.name, " - ", "0.5">>
    ELSE <<self.v.name>>

\* DataDim.__repr__: the parts of the string
DataDim_repr(self) == <<self.v.name, self.v.size>>

\* DataDim.coords: np.arange(start=0, stop=size, step=direction), empty when
\* the step is negative
DataDim_coords(self) ==
    IF self.v.direction > 0
    THEN [k \in 1 .. (self.v.size + self.v.direction - 1) \div self.v.direction |->
            (k - 1) * self.v.direction]
    ELSE <<>>

\* DataDim.__getitem__ without its assertion
DataDim_getitem_Unchecked(tab, hp, self, index) ==
    IF self.v.cls # "DataDim"
    THEN [ok |-> FALSE, obj |-> NoObj, tab |-> tab, heap |-> hp]
    ELSE MetaDim_call(tab, hp, "DataDim",
                      <<self.v.name, H(self.v.size), H(self.v.direction),
                        Some(H(index))>>)

\* DataDim.__getitem__; an object that is no DataDim has no __getitem__, and
\* self[index] is a TypeError
DataDim_getitem(tab, hp, self, index) ==
    IF self.v.cls # "DataDim" \/ self.v.index # None
    THEN [ok |-> FALSE, obj |-> NoObj, tab |-> tab, heap |-> hp]
    ELSE MetaDim_call(tab, hp, "DataDim",
                      <<self.v.name, H(self.v.size), H(self.v.direction),
                        Some(H(index))>>)

\* DataDim.__eq__
DataDim_eq(self, other) ==
    IF other.v.cls = "DataDim"
    THEN /\ self.v.name = other.v.name
         /\ self.v.size = other.v.size
         /\ self.v.direction = other.v.direction
    ELSE FALSE

\* DataDim.__hash__
DataDim_hash(self) ==
    <<self.v.name, HashNum(H(self.v.size)), HashNum(H(self.v.direction))>>

\* a == b and hash(a) for dimension objects of either class
Dim_eq(a, b) ==
    IF a.v.cls = "AbstractGridDim" THEN AbstractGridDim_eq(a, b) ELSE DataDim_eq(a, b)
Dim_hash(a) ==
    IF a.v.cls = "AbstractGridDim" THEN AbstractGridDim_hash(a) ELSE DataDim_hash(a)

\* == of tuples that holds for the same objects only
TupleEq_SameObjects(s, t) == s = t

\* hash and == of tuples of dimension objects, and the entries of a dict (a
\* sequence of keys with their hashes and values, in insertion order) that a
\* lookup with key k finds: equal hash, then the same object or ==
TupleHash(t) == [i \in 1 .. Len(t) |-> Dim_hash(t[i])]
TupleEq(s, t) ==
    /\ Len(s) = Len(t)
    /\ \A i \in 1 .. Len(s) : s[i] = t[i] \/ Dim_eq(s[i], t[i])
DictEntry(k, v) == [hash |-> TupleHash(k), key |-> k, value |-> v]
DictFind(entries, k) ==
    LET h == TupleHash(k) IN
    {i \in 1 .. Len(entries) : entries[i].hash = h /\ TupleEq(entries[i].key, k)}

IsGridDim(o) == o.v.cls = "AbstractGridDim"
GridDims(hp) == {o \in hp : IsGridDim(o)}
DataDims(hp) == {o \in hp : o.v.cls = "DataDim"}
\* the symbols the expressions of the actions are about
Symbols(hp) == {o \in GridDims(hp) : o.v.name \in Names}

----------------------------------------------------------------------------
(* Concrete dimensions and grids: grid.py, ConcreteGridDim and Grid *)

\* ConcreteGridDim.__init__ (the bounds play no part in the sizes)
ConcreteGridDim_init(abstract_dim, domain_size) ==
    [abstract_dim |-> abstract_dim,
     size |-> IF abstract_dim.v.offset \in {-1, 1} THEN domain_size + 1
              ELSE domain_size]

\* ConcreteGridDim.padding that ignores the direction
ConcreteGridDim_padding_Unsigned(self) ==
    IF self.abstract_dim.v.offset = 0 THEN 1 ELSE 0

\* ConcreteGridDim.padding
ConcreteGridDim_padding(self) ==
    IF self.abstract_dim.v.offset = 0 THEN self.abstract_dim.v.direction ELSE 0

\* ConcreteGridDim.coords: the i of each bounds[0] + i * step_factor * step
ConcreteGridDim_coords(self) ==
    LET n == self.size + Abs(ConcreteGridDim_padding(self)) IN
    [k \in 1 .. n |-> IF self.abstract_dim.v.direction < 0 THEN n - k ELSE k - 1]

\* AbstractGridDim.concretize that takes nz for axis 1
AbstractGridDim_concretize_WrongCount(self, grid_config) ==
    IF self.v.axis = 0 THEN ConcreteGridDim_init(self, grid_config.nx)
    ELSE ConcreteGridDim_init(self, grid_config.nz)

\* AbstractGridDim.concretize
AbstractGridDim_concretize(self, grid_config) ==
    IF self.v.axis = 0 THEN ConcreteGridDim_init(self, grid_config.nx)
    ELSE IF self.v.axis = 1 THEN ConcreteGridDim_init(self, grid_config.ny)
    ELSE ConcreteGridDim_init(self, grid_config.nz)

\* Grid.__init__
Grid_init(abstract_dims, grid_config) ==
    LET concrete_dims == [i \in 1 .. Len(abstract_dims) |->
                            AbstractGridDim_concretize(abstract_dims[i], grid_config)]
    IN  [abstract_dims |-> abstract_dims,
         ndim |-> Len(abstract_dims),
         dim_names |-> [i \in 1 .. Len(abstract_dims) |->
                           AbstractGridDim_repr(abstract_dims[i])],
         shape |-> [i \in 1 .. Len(abstract_dims) |-> concrete_dims[i].size],
         coords |-> [i \in 1 .. Len(abstract_dims) |->
                        ConcreteGridDim_coords(concrete_dims[i])],
         padding |-> [i \in 1 .. Len(abstract_dims) |->
                         ConcreteGridDim_padding(concrete_dims[i])]]

\* Grid.get_storage_shape
Grid_get_storage_shape(self) ==
    [i \in 1 .. self.ndim |-> self.shape[i] + Abs(self.padding[i])]

\* Grid.get_storage_origin with the sign of the padding lost
Grid_get_storage_origin_WrongSide(self) ==
    [i \in 1 .. self.ndim |-> Max(self.padding[i], 0)]

\* Grid.get_storage_origin
Grid_get_storage_origin(self) ==
    [i \in 1 .. self.ndim |-> Max(-self.padding[i], 0)]

\* Grid.get_storage_view_slice, given what get_storage_origin returned
Grid_get_storage_view_slice(self, origin) ==
    [i \in 1 .. self.ndim |->
        [start |-> origin[i], stop |-> origin[i] + self.shape[i]]]

\* the indices slice(start, stop) selects along an axis of length n
SliceBound(k, n) == IF k < 0 THEN Max(k + n, 0) ELSE Min(k, n)
SliceIndices(sl, n) == {i \in 0 .. n - 1 : SliceBound(sl.start, n) <= i /\ i < SliceBound(sl.stop, n)}

----------------------------------------------------------------------------
(* The state after the import of grid.py *)

\* I, IJ, J, K (grid.py:103-106), D5 (grid.py:196) and the K - 1/2 of
\* ComputationalGrid.GRID_LOCATIONS (grid.py:256), in the order of the file
ImportCalls ==
    << <<"AbstractGridDim", <<"I", H(0)>>>>,
       <<"AbstractGridDim", <<"IJ", H(0)>>>>,
       <<"AbstractGridDim", <<"J", H(1)>>>>,
       <<"AbstractGridDim", <<"K", H(2)>>>>,
       <<"DataDim", <<"D", H(5)>>>>,
       <<"AbstractGridDim", <<"K", H(2), -1>>>> >>

\* the n-th call of the import, made in state s
Import(s, n) ==
    LET r == MetaDim_call(s.tab, s.heap, ImportCalls[n][1], ImportCalls[n][2])
    IN  [tab |-> r.tab, heap |-> r.heap]

Imported ==
    Import(Import(Import(Import(Import(Import([tab |-> <<>>, heap |-> {}],
        1), 2), 3), 4), 5), 6)

I == Imported.tab[PyHash(<<"I", H(0)>>)]
J == Imported.tab[PyHash(<<"J", H(1)>>)]
K == Imported.tab[PyHash(<<"K", H(2)>>)]
KHalf == Imported.tab[PyHash(<<"K", H(2), -1>>)]
D5 == Imported.tab[PyHash(<<"D", H(5)>>)]

----------------------------------------------------------------------------
(* Storages and their pool: grid.py, ComputationalGrid; storage.py *)

\* ComputationalGrid.GRID_LOCATIONS
GRID_LOCATIONS == << <<I, J, K>>, <<I, J, KHalf>>, <<I, J>>, <<K>>, <<KHalf>> >>

\* ComputationalGrid.__init__ of a class whose GRID_LOCATIONS is locations
ComputationalGrid_over(locations, grid_config) ==
    [grid_config |-> grid_config,
     grids |-> [i \in 1 .. Len(locations) |->
                  DictEntry(locations[i], Grid_init(locations[i], grid_config))]]

\* ComputationalGrid.__init__
ComputationalGrid_init(grid_config) ==
    ComputationalGrid_over(GRID_LOCATIONS, grid_config)

\* computational_grid.grids[grid_dims]: the grid, or a KeyError with the key
Grids_getitem(cg, grid_dims) ==
    LET found == DictFind(cg.grids, grid_dims) IN
    IF found = {} THEN [ok |-> FALSE, error |-> [type |-> "KeyError", key |-> grid_dims]]
    ELSE [ok |-> TRUE, grid |-> cg.grids[CHOOSE i \in found : TRUE].value]

\* the sizes of the data dimensions left out of the shape
data_shape_None(data_dims) == <<>>

\* gt_zeros, data_shape
data_shape(data_dims) == [i \in 1 .. Len(data_dims) |-> data_dims[i].v.size]

\* gt_zeros that returns an array whose elements are not set
gt_zeros_Uninitialized(cg, grid_dims, data_dims, dtype_name) ==
    LET g == Grids_getitem(cg, grid_dims) IN
    IF g.ok
    THEN [ok |-> TRUE,
          array |-> [shape |-> Grid_get_storage_shape(g.grid) \o data_shape(data_dims),
                     dtype |-> dtype_name, data |-> "written"]]
    ELSE [ok |-> FALSE, error |-> g.error]

\* gt_zeros: the array gt4py.storage.zeros returns, or the KeyError of the
\* lookup; data_dims is () where the caller passes None or nothing
gt_zeros(cg, grid_dims, data_dims, dtype_name) ==
    LET g == Grids_getitem(cg, grid_dims) IN
    IF g.ok
    THEN [ok |-> TRUE,
          array |-> [shape |-> Grid_get_storage_shape(g.grid) \o data_shape(data_dims),
                     dtype |-> dtype_name, data |-> "zeros"]]
    ELSE [ok |-> FALSE, error |-> g.error]

\* DataArray(data, dims=dims, coords=coords, attrs=attrs): the DataArray, or
\* the ValueError of dims or coordinates that do not fit the shape of data
DataArray_init(data, dims, coords, attrs) ==
    IF /\ Len(dims) = Len(data.shape)
       /\ Len(coords) = Len(dims)
       /\ \A k \in 1 .. Len(dims) : Len(coords[k]) = data.shape[k]
    THEN [ok |-> TRUE,
          field |-> [data |-> data, dims |-> dims, coords |-> coords, attrs |-> attrs]]
    ELSE [ok |-> FALSE, error |-> [type |-> "ValueError"]]

\* get_data_array: the DataArray over buffer, or the KeyError of the lookup;
\* a dimension name is the parts of str(dim), a slice its start and stop
get_data_array(buffer, cg, grid_dims, units, data_dims) ==
    LET g == Grids_getitem(cg, grid_dims) IN
    IF g.ok
    THEN LET n == Len(data_dims)
         IN  DataArray_init(
                 buffer,
                 g.grid.dim_names \o [i \in 1 .. n |-> DataDim_repr(data_dims[i])],
                 g.grid.coords \o [i \in 1 .. n |-> DataDim_coords(data_dims[i])],
                   [units |-> units,
                    view_shape |-> g.grid.shape
                                     \o [i \in 1 .. n |-> data_dims[i].v.size],
                    view_slice |->
                      Grid_get_storage_view_slice(g.grid, Grid_get_storage_origin(g.grid))
                          \o [i \in 1 .. n |->
                                 [start |-> 0, stop |-> data_dims[i].v.size]]])
    ELSE [ok |-> FALSE, error |-> g.error]

\* zeros
zeros(cg, grid_dims, units, data_dims, dtype_name) ==
    LET buffer == gt_zeros(cg, grid_dims, data_dims, dtype_name) IN
    IF buffer.ok
    THEN get_data_array(buffer.array, cg, grid_dims, units, data_dims)
    ELSE [ok |-> FALSE, error |-> buffer.error]

\* the index tuples of an array of the given shape
Indices(shape) ==
    LET top == IF shape = <<>> THEN 0
               ELSE CHOOSE m \in {shape[k] : k \in 1 .. Len(shape)} :
                       \A k \in 1 .. Len(shape) : shape[k] <= m
    IN  {idx \in [1 .. Len(shape) -> 0 .. top - 1] :
            \A k \in 1 .. Len(shape) : idx[k] < shape[k]}

\* np.tile with the array returned as it is, not repeated
np_tile_Once(a, reps) == a

\* np.tile(a, reps), a and reps of the same length: an array given by its
\* shape and its elements
np_tile(a, reps) ==
    LET shape == [k \in 1 .. Len(a.shape) |-> a.shape[k] * reps[k]] IN
    [shape |-> shape,
     data |-> [idx \in Indices(shape) |->
                 a.data[[k \in 1 .. Len(shape) |-> idx[k] % a.shape[k]]]]]

\* a[slices], one slice per axis: the view's shape and the index in a of
\* its first element
ndarray_getitem(a, slices) ==
    [shape |-> [k \in 1 .. Len(slices) |->
                  Cardinality(SliceIndices(slices[k], a.shape[k]))],
     start |-> [k \in 1 .. Len(slices) |-> SliceBound(slices[k].start, a.shape[k])]]

\* npx.assign(lhs, rhs) with the whole buffer written, the view ignored
npx_assign_Everywhere(a, lhs, b, rhs) ==
    [ok |-> TRUE,
     data |-> [idx \in DOMAIN a.data |->
                 b.data[[k \in 1 .. Len(idx) |-> idx[k] % b.shape[k]]]]]

\* npx.assign(lhs, rhs), lhs a view of a and rhs a view of b: the elements
\* of a afterwards, or the ValueError of shapes that do not broadcast
npx_assign(a, lhs, b, rhs) ==
    IF \A k \in 1 .. Len(lhs.shape) : rhs.shape[k] \in {1, lhs.shape[k]}
    THEN [ok |-> TRUE,
          data |-> [idx \in DOMAIN a.data |->
                      IF \A k \in 1 .. Len(idx) :
                            /\ lhs.start[k] <= idx[k]
                            /\ idx[k] < lhs.start[k] + lhs.shape[k]
                      THEN b.data[[k \in 1 .. Len(idx) |->
                                     rhs.start[k]
                                       + (IF rhs.shape[k] = 1 THEN 0
                                          ELSE idx[k] - lhs.start[k])]]
                      ELSE a.data[idx]]]
    ELSE [ok |-> FALSE, error |-> "ValueError", data |-> a.data]

\* assign(field, buffer) after its assertion, a the array field.data: the
\* elements of a and the caller's buffer afterwards, or the error raised
assign_body(field, a, buffer) ==
    LET ndim == Len(a.shape)
        view_shape == IF "view_shape" \in DOMAIN field.attrs
                      THEN field.attrs.view_shape ELSE a.shape
        \* slice(0, None) selects what slice(0, n) does along an axis of n
        view_slice == IF "view_slice" \in DOMAIN field.attrs
                      THEN field.attrs.view_slice
                      ELSE [k \in 1 .. ndim |-> [start |-> 0, stop |-> a.shape[k]]]
        buffer_slice == [k \in 1 .. Len(view_shape) |->
                           [start |-> 0, stop |-> view_shape[k]]]
    IN  IF \E k \in 1 .. ndim : buffer.shape[k] = 0
        THEN [ok |-> FALSE, error |-> "ZeroDivisionError", data |-> a.data,
              buffer |-> buffer]
        ELSE
        LET reps == [k \in 1 .. ndim |-> (view_shape[k] - 1) \div buffer.shape[k] + 1]
            tiled == np_tile(buffer, reps)
            r == npx_assign(a, ndarray_getitem(a, view_slice),
                            tiled, ndarray_getitem(tiled, buffer_slice))
        IN  IF r.ok
            THEN [ok |-> TRUE, data |-> r.data, buffer |-> buffer]
            ELSE [ok |-> FALSE, error |-> r.error, data |-> a.data, buffer |-> buffer]

\* assign with a buffer of lower rank given leading axes of extent 1
\* instead of being rejected
assign_Promoting(field, a, buffer) ==
    LET d == Len(a.shape) - Len(buffer.shape) IN
    IF d < 0
    THEN [ok |-> FALSE, error |-> "AssertionError", data |-> a.data, buffer |-> buffer]
    ELSE LET shape == [k \in 1 .. Len(a.shape) |->
                         IF k <= d THEN 1 ELSE buffer.shape[k - d]]
             r == assign_body(field, a,
                     [shape |-> shape,
                      data |-> [idx \in Indices(shape) |->
                                  buffer.data[[k \in 1 .. Len(buffer.shape) |->
                                                 idx[k + d]]]]])
         IN  [r EXCEPT !.buffer = buffer]

\* assign(field, buffer), a the array field.data
assign(field, a, buffer) ==
    IF Len(a.shape) # Len(buffer.shape)
    THEN [ok |-> FALSE, error |-> "AssertionError", data |-> a.data, buffer |-> buffer]
    ELSE assign_body(field, a, buffer)

\* the hash of (grid.shape + grid_dims) alone, the dtype_name left out
GridHash_NoDType(g, grid_dims, dtype_name) ==
    <<[i \in 1 .. Len(g.shape) |-> HashNum(H(g.shape[i]))], TupleHash(grid_dims),
      "dtype">>

\* hash((grid.shape + grid_dims, dtype_name)); the shape and the dimensions
\* have the same length, so their concatenation is kept as the two parts
GridHash(g, grid_dims, dtype_name) ==
    <<[i \in 1 .. Len(g.shape) |-> HashNum(H(g.shape[i]))], TupleHash(grid_dims),
      dtype_name>>

\* a list without its last element
Pop(list) == SubSeq(list, 1, Len(list) - 1)

\* pool.pop() that leaves the storage in the list
pool_pop_Keep(pool, grid_hash) == pool

\* TEMPORARY_STORAGE_POOL.clear() that drops nothing
dict_clear_Keep(pool) == pool

\* TEMPORARY_STORAGE_POOL.clear(): the dict without any key
dict_clear(pool) == <<>>

\* the test len(pool) > 0 that never finds a storage
pool_hit_Never(pool, grid_hash) == FALSE

\* len(pool) > 0 for the list under grid_hash
pool_hit(pool, grid_hash) == Len(pool[grid_hash]) > 0

\* storage = pool.pop(): the pool once the last storage of the list under
\* grid_hash is taken from it
pool_pop(pool, grid_hash) == [pool EXCEPT ![grid_hash] = Pop(@)]

\* managed_temporary_storage up to its yield: the loop over args from the
\* i-th pair on; a KeyError of the grid lookup ends it
RECURSIVE Acquire(_, _, _, _, _, _, _)
Acquire(cg, pool, arrs, args, i, grid_hashes, storages) ==
    IF i > Len(args)
    THEN [ok |-> TRUE, pool |-> pool, arrays |-> arrs,
          grid_hashes |-> grid_hashes, storages |-> storages]
    ELSE LET g == Grids_getitem(cg, args[i][1]) IN
         IF ~g.ok
         THEN [ok |-> FALSE, pool |-> pool, arrays |-> arrs,
               grid_hashes |-> grid_hashes, storages |-> storages]
         ELSE LET grid_hash == GridHash(g.grid, args[i][1], args[i][2])
                  pool1 == IF grid_hash \in DOMAIN pool THEN pool
                           ELSE (grid_hash :> <<>>) @@ pool
                  hit == pool_hit(pool1, grid_hash)
                  pool2 == IF hit THEN pool_pop(pool1, grid_hash) ELSE pool1
                  arrs2 == IF hit THEN arrs
                           ELSE Append(arrs, gt_zeros(cg, args[i][1], <<>>, args[i][2]).array)
                  storage == IF hit THEN pool1[grid_hash][Len(pool1[grid_hash])]
                             ELSE Len(arrs2)
              IN  Acquire(cg, pool2, arrs2, args, i + 1,
                          Append(grid_hashes, grid_hash), Append(storages, storage))

\* the finally clause of managed_temporary_storage from the i-th storage on;
\* a KeyError of TEMPORARY_STORAGE_POOL[grid_hash] ends it
RECURSIVE Release(_, _, _, _)
Release(pool, grid_hashes, storages, i) ==
    IF i > Len(storages) THEN [ok |-> TRUE, pool |-> pool]
    ELSE IF grid_hashes[i] \notin DOMAIN pool THEN [ok |-> FALSE, pool |-> pool]
    ELSE Release([pool EXCEPT ![grid_hashes[i]] = Append(@, storages[i])],
                 grid_hashes, storages, i + 1)

GridDimArgs ==
    {<<n, H(a)>> : n \in Names, a \in AxisArgs}
    \cup {<<n, H(a), o>> : n \in Names, a \in AxisArgs, o \in OffsetArgs}
    \cup {<<n, H(a), o, Some(H(d))>> :
             n \in Names, a \in AxisArgs, o \in OffsetArgs, d \in DirectionArgs}

DataDimArgs ==
    {<<n, H(s)>> : n \in Names, s \in SizeArgs}
    \cup {<<n, H(s), H(d)>> : n \in Names, s \in SizeArgs, d \in DirectionArgs}

\* calls whose direction is neither -1 nor 1
OtherDirectionArgs == {0, 2}
OtherGridDimArgs ==
    {<<n, H(a), o, Some(H(d))>> :
        n \in Names, a \in AxisArgs, o \in {-1, 0}, d \in OtherDirectionArgs}

\* the intern table has room for what a call added
Room(tab) == Cardinality(DOMAIN tab) <= Cardinality(DOMAIN Imported.tab) + MaxNew

----------------------------------------------------------------------------
(* Actions: one per expression a caller evaluates *)

NoGrid ==
    /\ gridIn = None
    /\ grid = None
    /\ memo = <<>>

NoPool ==
    /\ computational_grid = None
    /\ arrays = <<>>
    /\ TEMPORARY_STORAGE_POOL = <<>>
    /\ scopes = <<>>

NoFramework ==
    /\ properties = <<>>
    /\ STENCIL_COLLECTION = <<>>
    /\ decorators = <<>>

Init ==
    /\ NoFramework
    /\ DIM_INSTANCES = Imported.tab
    /\ heap = Imported.heap
    /\ last = [op |-> "import"]
    /\ NoGrid
    /\ NoPool

\* AbstractGridDim(*args)
NewAbstractGridDim ==
    \E args \in GridDimArgs :
        LET r == MetaDim_call(DIM_INSTANCES, heap, "AbstractGridDim", args) IN
        /\ Room(r.tab)
        /\ DIM_INSTANCES' = r.tab
        /\ heap' = r.heap
        /\ last' = [op |-> "make", cls |-> "AbstractGridDim", args |-> args,
                    ok |-> r.ok, obj |-> r.obj, before |-> DIM_INSTANCES]
        /\ UNCHANGED nonDimVars

\* DataDim(*args)
NewDataDim ==
    \E args \in DataDimArgs :
        LET r == MetaDim_call(DIM_INSTANCES, heap, "DataDim", args) IN
        /\ Room(r.tab)
        /\ DIM_INSTANCES' = r.tab
        /\ heap' = r.heap
        /\ last' = [op |-> "make", cls |-> "DataDim", args |-> args,
                    ok |-> r.ok, obj |-> r.obj, before |-> DIM_INSTANCES]
        /\ UNCHANGED nonDimVars

\* x + delta
Add ==
    \E x \in Symbols(heap), d \in Deltas :
        LET r == AbstractGridDim_add(DIM_INSTANCES, heap, x, d) IN
        /\ Room(r.tab)
        /\ DIM_INSTANCES' = r.tab
        /\ heap' = r.heap
        /\ last' = [op |-> "add", x |-> x, delta |-> d, ok |-> r.ok,
                    obj |-> r.obj, before |-> DIM_INSTANCES]
        /\ UNCHANGED nonDimVars

\* x - delta
Sub ==
    \E x \in Symbols(heap), d \in Deltas :
        LET r == AbstractGridDim_sub(DIM_INSTANCES, heap, x, d) IN
        /\ Room(r.tab)
        /\ DIM_INSTANCES' = r.tab
        /\ heap' = r.heap
        /\ last' = [op |-> "add", x |-> x, delta |-> -d, ok |-> r.ok,
                    obj |-> r.obj, before |-> DIM_INSTANCES]
        /\ UNCHANGED nonDimVars

\* -x
Neg ==
    \E x \in Symbols(heap) :
        LET r == AbstractGridDim_neg(DIM_INSTANCES, heap, x) IN
        /\ Room(r.tab)
        /\ DIM_INSTANCES' = r.tab
        /\ heap' = r.heap
        /\ last' = [op |-> "neg", x |-> x, ok |-> r.ok, obj |-> r.obj]
        /\ UNCHANGED nonDimVars

\* -(-x): the negation of what the last negation returned
NegAgain ==
    /\ last.op = "neg"
    /\ LET r == AbstractGridDim_neg(DIM_INSTANCES, heap, last.obj) IN
       /\ Room(r.tab)
       /\ DIM_INSTANCES' = r.tab
       /\ heap' = r.heap
       /\ last' = [op |-> "negneg", x |-> last.x, mid |-> last.obj, obj |-> r.obj]
       /\ UNCHANGED nonDimVars

\* (x + a) + b, where x + a is what the last shift returned, and x + (a + b)
AddAgain ==
    /\ last.op = "add"
    /\ last.ok
    /\ IsGridDim(last.obj)
    /\ \E b \in Deltas :
        LET l == AbstractGridDim_add(DIM_INSTANCES, heap, last.obj, b)
            r == AbstractGridDim_add(l.tab, l.heap, last.x, last.delta + b)
        IN  /\ Room(r.tab)
            /\ DIM_INSTANCES' = r.tab
            /\ heap' = r.heap
            /\ last' = [op |-> "addadd", x |-> last.x, a |-> last.delta, b |-> b,
                        mid |-> last.obj, lok |-> l.ok, lhs |-> l.obj,
                        rok |-> r.ok, rhs |-> r.obj]
            /\ UNCHANGED nonDimVars

\* x == y, hash(x), hash(y), and the lookup of (x,) in a dict whose key is (y,)
Eq ==
    \E x \in Symbols(heap), y \in Symbols(heap) :
        /\ last' = [op |-> "eq", x |-> x, y |-> y, eq |-> AbstractGridDim_eq(x, y),
                    hx |-> AbstractGridDim_hash(x), hy |-> AbstractGridDim_hash(y),
                    found |-> DictFind(<<DictEntry(<<y>>, TRUE)>>, <<x>>) # {}]
        /\ UNCHANGED <<dimVars, nonDimVars>>

Next ==
    \/ NewAbstractGridDim
    \/ NewDataDim
    \/ Add
    \/ Sub
    \/ Neg
    \/ NegAgain
    \/ AddAgain
    \/ Eq

Spec == Init /\ [][Next]_vars

\* d[i]
GetItem ==
    \E d \in DataDims(heap), i \in IndexArgs :
        LET r == DataDim_getitem(DIM_INSTANCES, heap, d, i) IN
        /\ Room(r.tab)
        /\ DIM_INSTANCES' = r.tab
        /\ heap' = r.heap
        /\ last' = [op |-> "getitem", x |-> d, index |-> i, ok |-> r.ok,
                    obj |-> r.obj, before |-> DIM_INSTANCES]
        /\ UNCHANGED nonDimVars

\* d[i][j], where d[i] is what the last indexing returned
GetItemAgain ==
    /\ last.op = "getitem"
    /\ last.ok
    /\ \E j \in IndexArgs :
        LET r == DataDim_getitem(DIM_INSTANCES, heap, last.obj, j) IN
        /\ Room(r.tab)
        /\ DIM_INSTANCES' = r.tab
        /\ heap' = r.heap
        /\ last' = [op |-> "getitem2", x |-> last.x, i |-> last.index, j |-> j,
                    mid |-> last.obj, ok |-> r.ok, obj |-> r.obj,
                    before |-> DIM_INSTANCES]
        /\ UNCHANGED nonDimVars

\* AbstractGridDim(name, axis, offset, direction), direction not -1 or 1
NewOtherDirection ==
    \E args \in OtherGridDimArgs :
        LET r == MetaDim_call(DIM_INSTANCES, heap, "AbstractGridDim", args) IN
        /\ Room(r.tab)
        /\ DIM_INSTANCES' = r.tab
        /\ heap' = r.heap
        /\ last' = [op |-> "make", cls |-> "AbstractGridDim", args |-> args,
                    ok |-> r.ok, obj |-> r.obj, before |-> DIM_INSTANCES]
        /\ UNCHANGED nonDimVars

\* data dimensions and their indexing
NextDims ==
    \/ NewDataDim
    \/ GetItem
    \/ GetItemAgain

SpecDims == Init /\ [][NextDims]_vars

\* the expressions over symbols, and the constructions with another direction
NextSymbols ==
    \/ NewAbstractGridDim
    \/ NewDataDim
    \/ Add
    \/ Sub
    \/ Neg
    \/ NegAgain
    \/ AddAgain
    \/ Eq
    \/ NewOtherDirection

SpecSymbols == Init /\ [][NextSymbols]_vars

----------------------------------------------------------------------------
(* Grids: Grid(abstract_dims, grid_config) and its memoized methods *)

\* the state after x + 1/2 and x - 1/2 were evaluated
RECURSIVE Shifted(_, _)
Shifted(s, xs) ==
    IF xs = {} THEN s
    ELSE LET x == CHOOSE y \in xs : TRUE
             a == AbstractGridDim_add(s.tab, s.heap, x, 1)
             b == AbstractGridDim_sub(a.tab, a.heap, x, 1)
         IN  Shifted([tab |-> b.tab, heap |-> b.heap], xs \ {x})

\* the state after -x was evaluated, for every x of xs
RECURSIVE Negated(_, _)
Negated(s, xs) ==
    IF xs = {} THEN s
    ELSE LET x == CHOOSE y \in xs : TRUE
             r == AbstractGridDim_neg(s.tab, s.heap, x)
         IN  Negated([tab |-> r.tab, heap |-> r.heap], xs \ {x})

\* the state of a program that has evaluated x + 1/2, x - 1/2 and the
\* negation of each of the three and of x, for x = I, J, K
WithShifts == Shifted(Imported, {I, J, K})
Populated == Negated(WithShifts, GridDims(WithShifts.heap))

OnAxis(a) == {<<o>> : o \in {x \in GridDims(Populated.heap) : x.v.axis = a}}
Opt(S) == S \cup {<<>>}

\* one symbol per axis at most, in the order of the axes, as in every entry
\* of ComputationalGrid.GRID_LOCATIONS
DimTuples ==
    {x \o y \o z : x \in Opt(OnAxis(0)), y \in Opt(OnAxis(1)), z \in Opt(OnAxis(2))}
        \ {<<>>}

GridConfigs == [nx : 1 .. MaxN, ny : 1 .. MaxN, nz : 1 .. MaxN]

InitGrid ==
    /\ NoFramework
    /\ DIM_INSTANCES = Populated.tab
    /\ heap = Populated.heap
    /\ last = [op |-> "import"]
    /\ gridIn \in [abstract_dims : DimTuples, grid_config : GridConfigs]
    /\ grid = None
    /\ memo = <<>>
    /\ NoPool

\* Grid(abstract_dims, grid_config)
NewGrid ==
    /\ grid = None
    /\ grid' = Grid_init(gridIn.abstract_dims, gridIn.grid_config)
    /\ last' = [op |-> "grid"]
    /\ UNCHANGED <<frameworkVars, dimVars, gridIn, memo, poolVars>>

\* functools.lru_cache: the value cached for the method, else the one computed
Cached(name, value) == IF name \in DOMAIN memo THEN memo[name] ELSE value

\* grid.get_storage_shape()
GetStorageShape ==
    /\ grid # None
    /\ LET r == Cached("get_storage_shape", Grid_get_storage_shape(grid)) IN
       /\ memo' = ("get_storage_shape" :> r) @@ memo
       /\ last' = [op |-> "get_storage_shape", val |-> r]
    /\ UNCHANGED <<frameworkVars, dimVars, gridIn, grid, poolVars>>

\* grid.get_storage_origin()
GetStorageOrigin ==
    /\ grid # None
    /\ LET r == Cached("get_storage_origin", Grid_get_storage_origin(grid)) IN
       /\ memo' = ("get_storage_origin" :> r) @@ memo
       /\ last' = [op |-> "get_storage_origin", val |-> r]
    /\ UNCHANGED <<frameworkVars, dimVars, gridIn, grid, poolVars>>

\* grid.get_storage_view_slice(), which calls get_storage_origin()
GetStorageViewSlice ==
    /\ grid # None
    /\ LET o == Cached("get_storage_origin", Grid_get_storage_origin(grid))
           r == Cached("get_storage_view_slice", Grid_get_storage_view_slice(grid, o))
       IN  /\ memo' = ("get_storage_view_slice" :> r) @@ memo
           /\ last' = [op |-> "get_storage_view_slice", val |-> r]
    /\ UNCHANGED <<frameworkVars, dimVars, gridIn, grid, poolVars>>

NextGrid ==
    \/ NewGrid
    \/ GetStorageShape
    \/ GetStorageOrigin
    \/ GetStorageViewSlice

SpecGrid == InitGrid /\ [][NextGrid]_vars

----------------------------------------------------------------------------
(* Lookups in a ComputationalGrid and allocations over its grids: grid.py,
   storage.py *)

\* the expression cls(*args) evaluated in state s
Call(s, cls, args) ==
    LET r == MetaDim_call(s.tab, s.heap, cls, args) IN
    [tab |-> r.tab, heap |-> r.heap, obj |-> r.obj]

\* the state of a program that has also built I, J, K and K - 1/2 with the
\* defaulted arguments written out
AgainI == Call(Populated, "AbstractGridDim", <<"I", H(0), 0>>)
AgainJ == Call(AgainI, "AbstractGridDim", <<"J", H(1), 0>>)
AgainK == Call(AgainJ, "AbstractGridDim", <<"K", H(2), 0>>)
AgainKHalf == Call(AgainK, "AbstractGridDim", <<"K", H(2), -1, Some(H(1))>>)

\* ... and the data dimensions DataDim("D", 2) and DataDim("E", 3, -1)
DataD == Call(AgainKHalf, "DataDim", <<"D", H(2)>>)
DataE == Call(DataD, "DataDim", <<"E", H(3), H(-1)>>)
Built == DataE

\* cls(*args) for the args of a call made before: the object of the table
Interned(args) == DIM_INSTANCES[PyHash(args)]

\* K + 1/2, -K and -J
KPlusHalf == Interned(<<"K", H(2), 1>>)
KFlipped == Interned(<<"K", H(2), 0, Some(H(-1))>>)
JFlipped == Interned(<<"J", H(1), 0, Some(H(-1))>>)

\* the objects the keys of the lookups are made of, and the keys
LookupDims ==
    {Interned(<<"I", H(0)>>), Interned(<<"J", H(1)>>), Interned(<<"K", H(2)>>),
     Interned(<<"K", H(2), -1>>), Interned(<<"D", H(5)>>),
     Interned(<<"I", H(0), 0>>), Interned(<<"J", H(1), 0>>), Interned(<<"K", H(2), 0>>),
     Interned(<<"K", H(2), -1, Some(H(1))>>),
     KPlusHalf, KFlipped}
LookupKeys == UNION {[1 .. n -> LookupDims] : n \in 1 .. 3}

\* the arguments of the allocators: the keys of GRID_LOCATIONS, built from
\* either object of an equal pair, and a key that is not one of them
AllocKeys ==
    {<<i, j, k>> : i \in {Interned(<<"I", H(0)>>), Interned(<<"I", H(0), 0>>)},
                   j \in {Interned(<<"J", H(1)>>)},
                   k \in {Interned(<<"K", H(2)>>), Interned(<<"K", H(2), -1>>),
                          Interned(<<"K", H(2), -1, Some(H(1))>>)}}
    \cup {<<Interned(<<"I", H(0)>>), Interned(<<"J", H(1)>>)>>,
          <<Interned(<<"K", H(2)>>)>>, <<Interned(<<"K", H(2), 0>>)>>,
          <<Interned(<<"K", H(2), -1>>)>>, <<KPlusHalf>>}
DataDimTuples ==
    {<<>>, <<Interned(<<"D", H(5)>>)>>, <<Interned(<<"D", H(2)>>)>>,
     <<Interned(<<"D", H(2)>>), Interned(<<"E", H(3), H(-1)>>)>>,
     <<Interned(<<"E", H(3), H(-1)>>), Interned(<<"D", H(2)>>)>>}
DTypeNames == {"bool", "float", "int"}

InitStorage ==
    /\ NoFramework
    /\ \E s \in {Built} : DIM_INSTANCES = s.tab /\ heap = s.heap
    /\ last = [op |-> "import"]
    /\ NoGrid
    /\ computational_grid \in {ComputationalGrid_init(c) : c \in GridConfigs}
    /\ arrays = <<>>
    /\ TEMPORARY_STORAGE_POOL = <<>>
    /\ scopes = <<>>

\* the calls below read the computational grid and change nothing, so a
\* behaviour makes one call

\* computational_grid.grids[grid_dims]
Getitem ==
    /\ last.op = "import"
    /\ \E grid_dims \in LookupKeys :
          last' = [op |-> "getitem", key |-> grid_dims,
                   r |-> Grids_getitem(computational_grid, grid_dims)]
    /\ UNCHANGED <<frameworkVars, dimVars, gridVars, poolVars>>

\* gt_zeros(computational_grid, grid_dims, data_dims, dtype_name=...)
GtZeros ==
    /\ last.op = "import"
    /\ \E grid_dims \in AllocKeys, data_dims \in DataDimTuples, dtype_name \in DTypeNames :
          last' = [op |-> "gt_zeros", grid_dims |-> grid_dims, data_dims |-> data_dims,
                   dtype_name |-> dtype_name,
                   r |-> gt_zeros(computational_grid, grid_dims, data_dims, dtype_name)]
    /\ UNCHANGED <<frameworkVars, dimVars, gridVars, poolVars>>

\* zeros(computational_grid, grid_dims, "1", data_dims, dtype_name=...)
Zeros ==
    /\ last.op = "import"
    /\ \E grid_dims \in AllocKeys, data_dims \in DataDimTuples, dtype_name \in DTypeNames :
          last' = [op |-> "zeros", grid_dims |-> grid_dims, data_dims |-> data_dims,
                   dtype_name |-> dtype_name,
                   r |-> zeros(computational_grid, grid_dims, "1", data_dims, dtype_name)]
    /\ UNCHANGED <<frameworkVars, dimVars, gridVars, poolVars>>

NextStorage ==
    \/ Getitem
    \/ GtZeros
    \/ Zeros

SpecStorage == InitStorage /\ [][NextStorage]_vars

----------------------------------------------------------------------------
(* assign(field, buffer): storage.py, a field over a grid of a computational
   grid and a buffer of the caller *)

\* the grids the fields are defined over: the padding of K and J trails,
\* the padding of -K and -J leads, K - 1/2 has none
AssignLocations ==
    << <<Interned(<<"K", H(2)>>)>>, <<KFlipped>>, <<Interned(<<"K", H(2), -1>>)>>,
       <<JFlipped, Interned(<<"K", H(2), -1>>)>>,
       <<Interned(<<"J", H(1)>>), KFlipped>> >>
AssignGridConfigs == {c \in GridConfigs : c.nx = 1}

\* the shapes of the caller's buffers: ranks 1 to 3, extents from 0
SourceShapes == UNION {[1 .. n -> 0 .. MaxN + 1] : n \in 1 .. 3}

\* a number for each index of an array of rank 3 or less, no two the same
ravel(idx, shape) ==
    idx[1] + (IF Len(shape) < 2 THEN 0
              ELSE shape[1] * (idx[2] + (IF Len(shape) < 3 THEN 0
                                         ELSE shape[2] * idx[3])))

\* a buffer of the caller: every element a different positive number
Source(shape) ==
    [shape |-> shape, dtype |-> "float",
     data |-> [idx \in Indices(shape) |-> 1 + ravel(idx, shape)]]
Sources == {Source(shape) : shape \in SourceShapes}

\* the elements of an array gt_zeros returned, as they are (0 everywhere) or
\* after the caller has written a different negative number to each
Elements(a, written) ==
    [a EXCEPT !.data = [idx \in Indices(a.shape) |->
                          IF written THEN -(1 + ravel(idx, a.shape)) ELSE 0]]

\* a field zeros has returned, or a DataArray over the same buffer with the
\* units alone in its attrs, written by the caller since or not; arrays[1]
\* is field.data, arrays[2] the buffer
InitAssign ==
    /\ NoFramework
    /\ \E s \in {Built} : DIM_INSTANCES = s.tab /\ heap = s.heap
    /\ last = [op |-> "import"]
    /\ grid = None
    /\ memo = <<>>
    /\ computational_grid \in
          {ComputationalGrid_over(AssignLocations, c) : c \in AssignGridConfigs}
    /\ \E n \in 1 .. Len(AssignLocations), data_dims \in {<<>>, <<Interned(<<"D", H(2)>>)>>},
          with_view \in BOOLEAN :
          \E f \in {zeros(computational_grid, AssignLocations[n], "1", data_dims,
                          "float").field} :
              /\ gridIn = [field |-> [data |-> 1, dims |-> f.dims, coords |-> f.coords,
                                      attrs |-> IF with_view THEN f.attrs
                                                ELSE [units |-> f.attrs.units]],
                           buffer |-> 2]
              /\ \E a \in {Elements(f.data, w) : w \in BOOLEAN}, buffer \in Sources :
                    arrays = <<a, buffer>>
    /\ TEMPORARY_STORAGE_POOL = <<>>
    /\ scopes = <<>>

\* assign(field, buffer)
Assign ==
    /\ last.op = "import"
    /\ LET r == assign(gridIn.field, arrays[gridIn.field.data], arrays[gridIn.buffer])
       IN  /\ arrays' = [arrays EXCEPT ![gridIn.field.data] = [@ EXCEPT !.data = r.data],
                                       ![gridIn.buffer] = r.buffer]
           /\ last' = [op |-> "assign", ok |-> r.ok]
    /\ UNCHANGED <<frameworkVars, dimVars, gridVars, computational_grid, TEMPORARY_STORAGE_POOL, scopes>>

NextAssign ==
    \/ Assign

SpecAssign == InitAssign /\ [][NextAssign]_vars

----------------------------------------------------------------------------
(* The pool of temporary storages: storage.py *)

\* the (grid_dims, dtype_name) pairs the calls draw from; (J,) is not a key of
\* the computational grid
Pairs == {<<(<<K>>), "float">>, <<(<<K>>), "int">>, <<(<<J>>), "float">>}

\* the domain of the one computational grid of the session
PoolGridConfig == [nx |-> 1, ny |-> 2, nz |-> 3]

\* the *args of a call; the loop reads no pair after one whose lookup fails, so
\* such a pair comes last
Requests ==
    {args \in UNION {[1 .. n -> Pairs] : n \in 1 .. MaxArgs} :
        \A i \in 1 .. Len(args) - 1 : args[i][1] # <<J>>}

InitPool ==
    /\ NoFramework
    /\ DIM_INSTANCES = Imported.tab
    /\ heap = Imported.heap
    /\ last = [op |-> "import"]
    /\ NoGrid
    /\ computational_grid = ComputationalGrid_init(PoolGridConfig)
    /\ arrays = <<>>
    /\ TEMPORARY_STORAGE_POOL = <<>>
    /\ scopes = <<>>

\* with managed_temporary_storage(computational_grid, *args, ...): up to the yield
EnterStorageWith(requests) ==
    /\ Len(scopes) < MaxDepth
    /\ \E args \in requests :
        LET r == Acquire(computational_grid, TEMPORARY_STORAGE_POOL, arrays, args, 1,
                         <<>>, <<>>)
        IN  /\ Len(r.arrays) <= MaxAlloc
            /\ TEMPORARY_STORAGE_POOL' = r.pool
            /\ arrays' = r.arrays
            /\ scopes' = IF r.ok
                         THEN Append(scopes, [kind |-> "storage", args |-> args,
                                              grid_hashes |-> r.grid_hashes,
                                              storages |-> r.storages])
                         ELSE scopes
            /\ last' = [op |-> "enter_storage", ok |-> r.ok]
    /\ UNCHANGED <<frameworkVars, dimVars, gridVars, computational_grid>>

EnterStorage == EnterStorageWith(Requests)

\* the innermost scope
Top == scopes[Len(scopes)]

\* the with block of the innermost managed_temporary_storage ends, its body
\* having failed or not: the finally clause
ExitStorage ==
    /\ scopes # <<>>
    /\ Top.kind = "storage"
    /\ \E body_failed \in BOOLEAN :
        LET r == Release(TEMPORARY_STORAGE_POOL, Top.grid_hashes, Top.storages, 1) IN
        /\ TEMPORARY_STORAGE_POOL' = r.pool
        /\ scopes' = Pop(scopes)
        /\ last' = [op |-> "exit_storage", body_failed |-> body_failed, ok |-> r.ok]
    /\ UNCHANGED <<frameworkVars, dimVars, gridVars, computational_grid, arrays>>

\* the body of the innermost managed_temporary_storage scope writes into one
\* of the storages it was given
WriteStorage ==
    /\ scopes # <<>>
    /\ Top.kind = "storage"
    /\ \E i \in 1 .. Len(Top.storages) :
        /\ arrays[Top.storages[i]].data = "zeros"
        /\ arrays' = [arrays EXCEPT ![Top.storages[i]].data = "written"]
    /\ last' = [op |-> "write"]
    /\ UNCHANGED <<frameworkVars, dimVars, gridVars, computational_grid, TEMPORARY_STORAGE_POOL, scopes>>

\* with managed_temporary_storage_pool(): up to the yield
EnterPool ==
    /\ Len(scopes) < MaxDepth
    /\ TEMPORARY_STORAGE_POOL' = dict_clear(TEMPORARY_STORAGE_POOL)
    /\ scopes' = Append(scopes, [kind |-> "pool"])
    /\ last' = [op |-> "enter_pool"]
    /\ UNCHANGED <<frameworkVars, dimVars, gridVars, computational_grid, arrays>>

\* the with block of the innermost managed_temporary_storage_pool ends
ExitPool ==
    /\ scopes # <<>>
    /\ Top.kind = "pool"
    /\ \E body_failed \in BOOLEAN :
        /\ TEMPORARY_STORAGE_POOL' = dict_clear(TEMPORARY_STORAGE_POOL)
        /\ scopes' = Pop(scopes)
        /\ last' = [op |-> "exit_pool", body_failed |-> body_failed]
    /\ UNCHANGED <<frameworkVars, dimVars, gridVars, computational_grid, arrays>>

NextPool ==
    \/ EnterStorage
    \/ ExitStorage
    \/ EnterPool
    \/ ExitPool

SpecPool == InitPool /\ [][NextPool]_vars

\* the pool with bodies that write into their storages; the calls ask for
\* one pair each
OneRequests == {args \in Requests : Len(args) = 1}
EnterStorageOne == EnterStorageWith(OneRequests)

NextPoolData ==
    \/ EnterStorageOne
    \/ WriteStorage
    \/ ExitStorage
    \/ EnterPool
    \/ ExitPool

SpecPoolData == InitPool /\ [][NextPoolData]_vars

----------------------------------------------------------------------------
(* The dimension symbols: interning, shift, negation, equality *)

ValidOffsets == {-1, 0, 1}

\* the (name, axis, offset, direction) a constructor call denotes, in half-steps
Denotes(args) ==
    <<args[1], args[2],
      IF Len(args) >= 3 THEN args[3] ELSE 0,
      IF Len(args) >= 4 THEN args[4][1] ELSE H(1)>>

\* the (name, axis, offset, direction) of a symbol
Value(o) == <<o.v.name, o.v.axis, o.v.offset, o.v.direction>>

\* C1: a construction call of a Dimension Symbol returns the same object as
\* every earlier construction call that denotes the same (name, axis, offset,
\* direction), whether the trailing arguments were passed or defaulted.
C1_SameTupleSameObject ==
    (last.op = "make" /\ last.cls = "AbstractGridDim" /\ last.ok) =>
        \A o \in heap :
            (o.id[1] = "AbstractGridDim" /\ Denotes(o.id[2]) = Denotes(last.args))
                => o = last.obj

\* C2: x + delta (and x - delta) is the symbol with the name, the axis and the
\* direction of x and the offset x.offset + delta, for x of either direction.
C2_ShiftKeepsDirection ==
    (last.op = "add" /\ last.x.v.offset + last.delta \in ValidOffsets) =>
        /\ last.ok
        /\ IsGridDim(last.obj)
        /\ Value(last.obj) = <<last.x.v.name, last.x.v.axis,
                                last.x.v.offset + last.delta, last.x.v.direction>>

\* C3: negation flips the direction only, and -(-x) is the same object as x,
\* for every symbol x, the module-level I, J, K included.
C3_NegationInvolutive ==
    last.op = "negneg" =>
        /\ Value(last.mid) = <<last.x.v.name, last.x.v.axis, last.x.v.offset,
                                -last.x.v.direction>>
        /\ last.obj = last.x

\* C4: when x.offset + a and x.offset + a + b are valid offsets, (x + a) + b
\* and x + (a + b) both return a symbol, and it is the same object.
C4_ShiftsCompose ==
    (/\ last.op = "addadd"
     /\ last.x.v.offset + last.a \in ValidOffsets
     /\ last.x.v.offset + last.a + last.b \in ValidOffsets) =>
        /\ last.lok
        /\ last.rok
        /\ last.lhs = last.rhs

\* a shift by a and then by b (neither of them 0) whose offsets are valid has
\* been evaluated on a symbol
C4_Witness ==
    /\ last.op = "addadd"
    /\ last.a # 0
    /\ last.b # 0
    /\ last.x.v.offset + last.a \in ValidOffsets
    /\ last.x.v.offset + last.a + last.b \in ValidOffsets
    /\ last.lok
    /\ last.lhs # last.x

\* C5: x == y holds exactly when x and y have equal (name, axis, offset,
\* direction), the same object or not; then their hashes are equal and a dict
\* lookup with the tuple (x,) finds the entry stored under (y,).
C5_EqualityByValue ==
    last.op = "eq" =>
        /\ last.eq <=> (Value(last.x) = Value(last.y))
        /\ last.eq => (last.hx = last.hy /\ last.found)
        /\ last.found => last.eq

\* two distinct objects of equal value have been compared, and two symbols
\* that differ in the direction alone
C5_Witness ==
    /\ last.op = "eq"
    /\ last.x # last.y
    /\ last.eq
    /\ \E o \in Symbols(heap) :
          /\ o.v.direction # last.x.v.direction
          /\ o.v.offset = last.x.v.offset

----------------------------------------------------------------------------
(* Grids: storage shape, origin, view slice, padding, sizes *)

Has(name) == name \in DOMAIN memo

\* C6: for every grid and axis i, storage_shape[i] = shape[i] + |padding[i]|,
\* storage_origin[i] = max(-padding[i], 0), the view slice is
\* [origin[i], origin[i] + shape[i]), and the indices it selects in a buffer of
\* the storage shape are exactly shape[i] contiguous indices from the origin,
\* all inside [0, storage_shape[i]).
C6_StorageLaw ==
    grid # None =>
        \A i \in 1 .. grid.ndim :
            LET s == grid.shape[i]
                p == grid.padding[i]
                o == IF p < 0 THEN -p ELSE 0
            IN  /\ Has("get_storage_shape") =>
                       memo["get_storage_shape"][i] = s + (IF p < 0 THEN -p ELSE p)
                /\ Has("get_storage_origin") => memo["get_storage_origin"][i] = o
                /\ Has("get_storage_view_slice") =>
                       memo["get_storage_view_slice"][i] = [start |-> o, stop |-> o + s]
                /\ (Has("get_storage_view_slice") /\ Has("get_storage_shape")) =>
                       LET sel == SliceIndices(memo["get_storage_view_slice"][i],
                                               memo["get_storage_shape"][i])
                       IN  /\ sel = o .. (o + s - 1)
                           /\ Cardinality(sel) = s
                           /\ sel \subseteq 0 .. (memo["get_storage_shape"][i] - 1)

\* the three methods have been called on a grid with leading padding on one
\* axis, trailing padding on another and none on a third
C6_Witness ==
    /\ grid # None
    /\ Has("get_storage_shape")
    /\ Has("get_storage_origin")
    /\ Has("get_storage_view_slice")
    /\ \E i, j, k \in 1 .. grid.ndim :
          grid.padding[i] = -1 /\ grid.padding[j] = 1 /\ grid.padding[k] = 0

\* C7: a concrete dimension of offset 0 has padding +1 and storage origin 0
\* when its direction is +1, padding -1 and storage origin 1 when its direction
\* is -1; a concrete dimension of offset -1/2 or +1/2 has padding 0 for either
\* direction.
C7_PaddingSide ==
    grid # None =>
        \A i \in 1 .. grid.ndim :
            LET d == grid.abstract_dims[i].v
                p == grid.padding[i]
            IN  /\ (d.offset = 0 /\ d.direction = 1) =>
                       /\ p = 1
                       /\ Has("get_storage_origin") => memo["get_storage_origin"][i] = 0
                /\ (d.offset = 0 /\ d.direction = -1) =>
                       /\ p = -1
                       /\ Has("get_storage_origin") => memo["get_storage_origin"][i] = 1
                /\ d.offset \in {-1, 1} => p = 0

\* a grid with a cell-centred axis of direction -1 and a staggered axis of
\* direction -1, whose storage origin has been computed
C7_Witness ==
    /\ grid # None
    /\ Has("get_storage_origin")
    /\ \E i, j \in 1 .. grid.ndim :
          /\ grid.abstract_dims[i].v.offset = 0
          /\ grid.abstract_dims[i].v.direction = -1
          /\ grid.abstract_dims[j].v.offset # 0
          /\ grid.abstract_dims[j].v.direction = -1

\* the point count of the configuration along an axis
DomainSize(grid_config, axis) ==
    IF axis = 0 THEN grid_config.nx
    ELSE IF axis = 1 THEN grid_config.ny ELSE grid_config.nz

\* C8: concretizing a symbol against a domain with n points along the
\* symbol's axis (nx, ny, nz for axis 0, 1, 2) gives size n + 1 when the
\* offset is -1/2 or +1/2 and size n when the offset is 0.
C8_StaggeredSize ==
    grid # None =>
        \A i \in 1 .. grid.ndim :
            LET d == grid.abstract_dims[i].v
                n == DomainSize(gridIn.grid_config, d.axis)
            IN  /\ d.offset \in {-1, 1} => grid.shape[i] = n + 1
                /\ d.offset = 0 => grid.shape[i] = n

\* a three-dimensional grid with staggered and cell-centred axes over a domain
\* whose point counts differ from axis to axis
C8_Witness ==
    /\ grid # None
    /\ grid.ndim = 3
    /\ gridIn.grid_config.nx # gridIn.grid_config.ny
    /\ gridIn.grid_config.ny # gridIn.grid_config.nz
    /\ grid.abstract_dims[1].v.offset = -1
    /\ grid.abstract_dims[2].v.offset = 0
    /\ grid.abstract_dims[3].v.offset = 1

----------------------------------------------------------------------------
(* The pool of temporary storages *)

\* the storages a scope holds
Held(scope) ==
    IF scope.kind = "storage"
    THEN {scope.storages[i] : i \in 1 .. Len(scope.storages)}
    ELSE {}

\* the storages in the lists of the pool
Pooled(pool) == UNION {{pool[h][j] : j \in 1 .. Len(pool[h])} : h \in DOMAIN pool}

\* C9: whenever a managed_temporary_storage scope exits, normally or because
\* its body failed, every storage it acquired is in the pool list of its key
\* immediately afterwards, for every nesting of such scopes and of
\* managed_temporary_storage_pool scopes.
C9_ReleasedOnExit ==
    [][(/\ scopes # <<>>
        /\ Top.kind = "storage"
        /\ scopes' = Pop(scopes)
        /\ last'.op = "exit_storage") =>
           \A i \in 1 .. Len(Top.storages) :
               /\ Top.grid_hashes[i] \in DOMAIN TEMPORARY_STORAGE_POOL'
               /\ \E j \in 1 .. Len(TEMPORARY_STORAGE_POOL'[Top.grid_hashes[i]]) :
                      TEMPORARY_STORAGE_POOL'[Top.grid_hashes[i]][j] = Top.storages[i]]_vars

\* C10: no storage is held by two scopes that are outstanding at the same
\* time, no storage is both in the pool and held by an outstanding scope, and a
\* scope that asked for the same (grid_dims, dtype_name) pair twice holds two
\* distinct storages for it.
C10_NoSharedStorage ==
    /\ \A a, b \in 1 .. Len(scopes) :
           a # b => Held(scopes[a]) \cap Held(scopes[b]) = {}
    /\ \A a \in 1 .. Len(scopes) :
           Held(scopes[a]) \cap Pooled(TEMPORARY_STORAGE_POOL) = {}
    /\ \A a \in 1 .. Len(scopes) :
           scopes[a].kind = "storage" =>
               \A i, j \in 1 .. Len(scopes[a].args) :
                   (i # j /\ scopes[a].args[i] = scopes[a].args[j]) =>
                       scopes[a].storages[i] # scopes[a].storages[j]

\* two nested scopes are outstanding; the inner one asked for the same pair
\* twice and holds a storage allocated before the one the outer scope holds,
\* hence released to the pool and taken from it again
C10_Witness ==
    /\ Len(scopes) = 2
    /\ scopes[1].kind = "storage"
    /\ scopes[2].kind = "storage"
    /\ Len(scopes[2].args) = 2
    /\ scopes[2].args[1] = scopes[2].args[2]
    /\ scopes[2].storages[1] < scopes[1].storages[1]

\* the scope a step has entered, and whether a step is the entry into a
\* managed_temporary_storage scope
Entered == scopes'[Len(scopes')]
IsEnterStorage ==
    /\ last'.op = "enter_storage"
    /\ last'.ok
    /\ Len(scopes') = Len(scopes) + 1

\* the storages in the pool list of grid_hash (none when it has no list)
Bucket(pool, grid_hash) ==
    IF grid_hash \in DOMAIN pool THEN pool[grid_hash] ELSE <<>>

\* the requests before the i-th of a scope that have the key of the i-th
Earlier(scope, i) == {j \in 1 .. i - 1 : scope.grid_hashes[j] = scope.grid_hashes[i]}

\* C11: a storage that was acquired and released for a (grid_dims, dtype_name)
\* pair is in the pool list of the pair until a reset or another acquisition
\* takes it; an acquisition of the pair then returns a storage that was
\* released before, and allocates nothing.
C11_PoolReuse ==
    [][IsEnterStorage =>
          /\ \A i \in 1 .. Len(Entered.storages) :
                 Cardinality(Earlier(Entered, i))
                     < Len(Bucket(TEMPORARY_STORAGE_POOL, Entered.grid_hashes[i]))
                 => /\ Entered.storages[i] \in Pooled(TEMPORARY_STORAGE_POOL)
                    /\ Entered.storages[i] <= Len(arrays)
          /\ (\A i \in 1 .. Len(Entered.storages) :
                 Cardinality(Earlier(Entered, i))
                     < Len(Bucket(TEMPORARY_STORAGE_POOL, Entered.grid_hashes[i])))
             => arrays' = arrays]_vars

\* the one outstanding scope asked for a pair twice and was given the two
\* storages allocated so far, the later one first: both came from the pool
C11_Witness ==
    /\ last.op = "enter_storage"
    /\ last.ok
    /\ Len(scopes) = 1
    /\ Len(arrays) = 2
    /\ Top.storages = <<2, 1>>

\* whether a step enters or leaves a managed_temporary_storage_pool scope, and
\* whether it leaves a managed_temporary_storage scope
IsReset ==
    /\ last'.op \in {"enter_pool", "exit_pool"}
    /\ Len(scopes') # Len(scopes)
IsExitStorage ==
    /\ last'.op = "exit_storage"
    /\ Len(scopes') = Len(scopes) - 1

\* C12: entering or leaving managed_temporary_storage_pool leaves the pool
\* with no storage; an acquisition that finds the pool empty allocates every
\* storage it returns; and a storage the reset dropped never comes back: an
\* acquisition returns only storages of the pool's lists or new ones, and a
\* release adds to the lists only the storages its scope holds.
C12_PoolIsolation ==
    [][/\ IsReset =>
              /\ TEMPORARY_STORAGE_POOL' = <<>>
              /\ Pooled(TEMPORARY_STORAGE_POOL') = {}
       /\ IsEnterStorage =>
              \A i \in 1 .. Len(Entered.storages) :
                  \/ Entered.storages[i] \in Pooled(TEMPORARY_STORAGE_POOL)
                  \/ /\ Entered.storages[i] > Len(arrays)
                     /\ Entered.storages[i] <= Len(arrays')
       /\ (IsEnterStorage /\ Pooled(TEMPORARY_STORAGE_POOL) = {}) =>
              /\ Len(arrays') = Len(arrays) + Len(Entered.storages)
              /\ \A i \in 1 .. Len(Entered.storages) : Entered.storages[i] > Len(arrays)
       /\ IsExitStorage =>
              Pooled(TEMPORARY_STORAGE_POOL')
                  \subseteq Pooled(TEMPORARY_STORAGE_POOL) \cup Held(Top)]_vars

\* inside a managed_temporary_storage_pool scope an acquisition has allocated
\* a second array of the shape and dtype of the first, which was allocated
\* before the scope was entered and is out of the pool since
C12_Witness ==
    /\ last.op = "enter_storage"
    /\ last.ok
    /\ Len(scopes) = 2
    /\ scopes[1].kind = "pool"
    /\ Top.storages = <<2>>
    /\ Len(arrays) = 2
    /\ arrays[1].shape = arrays[2].shape
    /\ arrays[1].dtype = arrays[2].dtype
    /\ TEMPORARY_STORAGE_POOL[Top.grid_hashes[1]] = <<>>

\* C13: acquisitions, releases and resets leave the contents of every array
\* as they are, so a storage taken from the pool shows what its previous
\* holder wrote; the arrays an acquisition allocates are all zeros.
C13_ContentsKept ==
    [][/\ last'.op = "enter_storage" =>
              /\ Len(arrays') >= Len(arrays)
              /\ \A s \in 1 .. Len(arrays) : arrays'[s] = arrays[s]
              /\ \A s \in Len(arrays) + 1 .. Len(arrays') : arrays'[s].data = "zeros"
       /\ (IsExitStorage \/ IsReset) => arrays' = arrays]_vars

\* an acquisition has just returned a storage that a previous holder wrote
\* into, while an array allocated later is still all zeros
C13_Witness ==
    /\ last.op = "enter_storage"
    /\ last.ok
    /\ arrays[Top.storages[1]].data = "written"
    /\ \E s \in 1 .. Len(arrays) : s > Top.storages[1] /\ arrays[s].data = "zeros"

\* C14: with the one computational grid, every storage a scope was given for
\* a (grid_dims, dtype_name) pair has the storage shape of the grid stored
\* under grid_dims (shape[i] + |padding[i]| along every axis) and the dtype
\* dtype_name, whatever was acquired and released before.
C14_StorageOfThePair ==
    \A a \in 1 .. Len(scopes) :
        scopes[a].kind = "storage" =>
            \A i \in 1 .. Len(scopes[a].args) :
                LET g == Grids_getitem(computational_grid, scopes[a].args[i][1])
                    array == arrays[scopes[a].storages[i]]
                IN  /\ g.ok
                    /\ array.shape = [k \in 1 .. g.grid.ndim |->
                                          g.grid.shape[k] + Abs(g.grid.padding[k])]
                    /\ array.dtype = scopes[a].args[i][2]

\* a call that asked for one pair of dtype "int" has just been given an array
\* that was allocated before, while the list of another dtype holds a later
\* array of the same shape
C14_Witness ==
    /\ last.op = "enter_storage"
    /\ last.ok
    /\ Len(Top.args) = 1
    /\ Top.args[1][2] = "int"
    /\ Top.storages[1] < Len(arrays)
    /\ \E h \in DOMAIN TEMPORARY_STORAGE_POOL :
          /\ h # Top.grid_hashes[1]
          /\ \E j \in 1 .. Len(TEMPORARY_STORAGE_POOL[h]) :
                 /\ TEMPORARY_STORAGE_POOL[h][j] > Top.storages[1]
                 /\ arrays[TEMPORARY_STORAGE_POOL[h][j]].shape = arrays[Top.storages[1]].shape

----------------------------------------------------------------------------
(* The computational grid, the allocators and assign *)

\* the (name, axis, offset, direction) of the keys of a computational grid,
\* offsets in half-steps
FiveKeys ==
    << << <<"I", 0, 0, 1>>, <<"J", 1, 0, 1>>, <<"K", 2, 0, 1>> >>,
       << <<"I", 0, 0, 1>>, <<"J", 1, 0, 1>>, <<"K", 2, -1, 1>> >>,
       << <<"I", 0, 0, 1>>, <<"J", 1, 0, 1>> >>,
       << <<"K", 2, 0, 1>> >>,
       << <<"K", 2, -1, 1>> >> >>

\* the tuple of symbols with the values vs, and no such tuple
HasValues(t, vs) ==
    /\ Len(t) = Len(vs)
    /\ \A k \in 1 .. Len(t) : IsGridDim(t[k]) /\ Value(t[k]) = vs[k]

\* C15: a computational grid holds five grids, keyed (I,J,K), (I,J,K-1/2),
\* (I,J), (K,) and (K-1/2,), each with the sizes of the one domain
\* configuration; a lookup with a tuple of symbols of equal values returns the
\* grid of the key, the objects being the same or not, and a lookup with any
\* other tuple fails with a KeyError that carries the tuple.
C15_FiveGrids ==
    LET grids == computational_grid.grids
        cfg == computational_grid.grid_config
    IN  computational_grid # None =>
        /\ Len(grids) = Len(FiveKeys)
        /\ \A n \in 1 .. Len(grids) :
               /\ HasValues(grids[n].key, FiveKeys[n])
               /\ grids[n].value.abstract_dims = grids[n].key
               /\ \A k \in 1 .. Len(grids[n].key) :
                      grids[n].value.shape[k] =
                          DomainSize(cfg, FiveKeys[n][k][2])
                              + (IF FiveKeys[n][k][3] = 0 THEN 0 ELSE 1)
        /\ last.op = "getitem" =>
               /\ \A n \in 1 .. Len(grids) :
                      HasValues(last.key, FiveKeys[n]) =>
                          (last.r.ok /\ last.r.grid = grids[n].value)
               /\ (\A n \in 1 .. Len(grids) : ~HasValues(last.key, FiveKeys[n])) =>
                      /\ ~last.r.ok
                      /\ last.r.error = [type |-> "KeyError", key |-> last.key]

\* a lookup with (I, J, K - 1/2) made of objects built again, none of them an
\* object of the key, has returned the grid, in a domain of unequal sizes
C15_Witness ==
    /\ last.op = "getitem"
    /\ last.r.ok
    /\ Len(last.key) = 3
    /\ last.key[3].v.offset = -1
    /\ \A k \in 1 .. 3 : last.key[k] \notin {I, J, K, KHalf}
    /\ computational_grid.grid_config.nx # computational_grid.grid_config.nz

(* the field of a call of assign, its array and the caller's buffer, and the
   view of the field: its shape and the index of its first element *)
IsAssign == last.op = "import" /\ last'.op = "assign"
Dst == arrays[gridIn.field.data]
Src == arrays[gridIn.buffer]
ViewShape ==
    IF "view_shape" \in DOMAIN gridIn.field.attrs
    THEN gridIn.field.attrs.view_shape ELSE Dst.shape
ViewStart ==
    [k \in 1 .. Len(Dst.shape) |->
        IF "view_slice" \in DOMAIN gridIn.field.attrs
        THEN gridIn.field.attrs.view_slice[k].start ELSE 0]
InView(idx) ==
    \A k \in 1 .. Len(idx) :
        ViewStart[k] <= idx[k] /\ idx[k] < ViewStart[k] + ViewShape[k]

(* C16: after assign(field, src) with equal ranks and every extent of src at
   least 1, the call has succeeded and the point at view index i of the
   field holds src[i mod src.shape], axis by axis *)
C16_AssignTiles ==
    [][(/\ IsAssign
        /\ Len(Dst.shape) = Len(Src.shape)
        /\ \A k \in 1 .. Len(Src.shape) : Src.shape[k] >= 1)
       => /\ last'.ok
          /\ \A i \in Indices(ViewShape) :
                arrays'[gridIn.field.data].data[
                    [k \in 1 .. Len(i) |-> ViewStart[k] + i[k]]]
                = Src.data[[k \in 1 .. Len(i) |-> i[k] % Src.shape[k]]]]_vars

\* an assign that succeeded with a source repeated along one axis and cut
\* along another, into a view that starts after a leading padding
C16_Witness ==
    /\ last.op = "assign"
    /\ last.ok
    /\ \E k \in 1 .. Len(Src.shape) : 1 < Src.shape[k] /\ Src.shape[k] < ViewShape[k]
    /\ \E k \in 1 .. Len(Src.shape) : Src.shape[k] > ViewShape[k]
    /\ \E k \in 1 .. Len(Src.shape) : ViewStart[k] > 0

(* C17: assign(field, src) leaves every element of the field's buffer
   outside the view as it was, on whichever side the padding lies, and
   leaves the caller's buffer as it was *)
C17_AssignFrame ==
    [][IsAssign
       => /\ \A idx \in DOMAIN Dst.data :
                ~InView(idx) => arrays'[gridIn.field.data].data[idx] = Dst.data[idx]
          /\ arrays'[gridIn.buffer] = Src]_vars

\* an assign that succeeded on a buffer the caller had written, with padding
\* before the view along one axis and after it along another
C17_Witness ==
    /\ last.op = "assign"
    /\ last.ok
    /\ \E k \in 1 .. Len(Dst.shape) : ViewStart[k] > 0
    /\ \E k \in 1 .. Len(Dst.shape) : ViewStart[k] + ViewShape[k] < Dst.shape[k]
    /\ \E idx \in DOMAIN Dst.data : ~InView(idx) /\ Dst.data[idx] < 0
    /\ \E idx \in DOMAIN Dst.data : InView(idx) /\ Dst.data[idx] > 0

(* C18: assign(field, src) with a src whose rank is not the rank of the
   field fails, and every element of the field's buffer is as it was *)
C18_RankChecked ==
    [][(IsAssign /\ Len(Dst.shape) # Len(Src.shape))
       => /\ ~last'.ok
          /\ arrays'[gridIn.field.data] = Dst]_vars

\* a failed assign of a buffer of lower rank, every extent at least 1, to a
\* field the caller had written
C18_Witness ==
    /\ last.op = "assign"
    /\ ~last.ok
    /\ Len(Src.shape) < Len(Dst.shape)
    /\ \A k \in 1 .. Len(Src.shape) : Src.shape[k] >= 1
    /\ \E idx \in DOMAIN Dst.data : Dst.data[idx] < 0

\* the grids of the computational grid whose key has the values of t
GridsAt(t) ==
    {computational_grid.grids[n].value :
        n \in {m \in 1 .. Len(FiveKeys) : HasValues(t, FiveKeys[m])}}

(* C19: gt_zeros for a key of the computational grid and a tuple of data
   dimensions returns an array of zeros whose shape is shape[i] +
   |padding[i]| for each axis of the grid, followed by the size of each
   data dimension in order; without data dimensions, that of the grid alone *)
C19_BufferShape ==
    last.op = "gt_zeros" =>
        \A g \in GridsAt(last.grid_dims) :
            /\ last.r.ok
            /\ last.r.array.data = "zeros"
            /\ last.r.array.shape =
                   [i \in 1 .. g.ndim |-> g.shape[i] + Abs(g.padding[i])]
                       \o [i \in 1 .. Len(last.data_dims) |-> last.data_dims[i].v.size]
            /\ last.data_dims = <<>> => Len(last.r.array.shape) = g.ndim

\* an array over (I, J, K - 1/2) with two data dimensions of different
\* sizes, the larger first, in a domain of unequal sizes
C19_Witness ==
    /\ last.op = "gt_zeros"
    /\ last.r.ok
    /\ HasValues(last.grid_dims, FiveKeys[2])
    /\ Len(last.data_dims) = 2
    /\ last.data_dims[1].v.size > last.data_dims[2].v.size
    /\ computational_grid.grid_config.nx # computational_grid.grid_config.ny

(* C20: a field zeros has returned for a key of the computational grid has a
   buffer of the padded storage shape, dims that are the grid's dim_names
   followed by the name of each data dimension, a view_shape that is the
   grid's shape followed by the sizes of the data dimensions, and a
   view_slice that is the grid's view slice followed by [0, size) for each
   data dimension, so that buffer[view_slice] has the shape view_shape *)
C20_FieldMetadata ==
    last.op = "zeros" =>
        \A g \in GridsAt(last.grid_dims) :
            LET n == Len(last.data_dims)
                sizes == [i \in 1 .. n |-> last.data_dims[i].v.size]
                f == last.r.field
            IN  last.r.ok =>
                /\ f.data.shape =
                       [i \in 1 .. g.ndim |-> g.shape[i] + Abs(g.padding[i])] \o sizes
                /\ f.dims = g.dim_names
                               \o [i \in 1 .. n |-> <<last.data_dims[i].v.name>>]
                /\ f.attrs.view_shape = g.shape \o sizes
                /\ f.attrs.view_slice =
                       [i \in 1 .. g.ndim |->
                           [start |-> Max(-g.padding[i], 0),
                            stop |-> Max(-g.padding[i], 0) + g.shape[i]]]
                       \o [i \in 1 .. n |-> [start |-> 0, stop |-> sizes[i]]]
                /\ ndarray_getitem(f.data, f.attrs.view_slice).shape
                       = f.attrs.view_shape

----------------------------------------------------------------------------
(* Data dimensions, the shared intern table, the arguments of a symbol *)

(* C21: d[i] for a data dimension d whose index is None returns an object
   that is not d, carries the index i, is == d and has the hash of d, and
   d keeps the index None; so d[i] and d[j] are different objects for
   i # j, and == *)
C21_IndexedCopy ==
    (last.op = "getitem" /\ last.x.v.index = None) =>
        /\ last.ok
        /\ last.obj # last.x
        /\ last.obj.v.cls = "DataDim"
        /\ last.obj.v.index = Some(last.index)
        /\ DataDim_eq(last.obj, last.x) /\ DataDim_eq(last.x, last.obj)
        /\ DataDim_hash(last.obj) = DataDim_hash(last.x)
        /\ last.x \in heap

(* C22: d[i][j] fails, whatever i and j, and leaves the intern table, the
   objects and so the index of d[i] as they were *)
C22_NoSecondIndex ==
    [][last'.op = "getitem2"
       => /\ ~last'.ok
          /\ last'.obj = NoObj
          /\ DIM_INSTANCES' = DIM_INSTANCES
          /\ heap' = heap
          /\ last'.mid \in heap']_vars

\* a failed d[i][j] with j # i, d[i] a new object carrying i, and room in
\* the intern table
C22_Witness ==
    /\ last.op = "getitem2"
    /\ ~last.ok
    /\ last.i # last.j
    /\ last.mid.v.index = Some(last.i)
    /\ last.mid # last.x
    /\ Cardinality(DOMAIN DIM_INSTANCES) < Cardinality(DOMAIN Imported.tab) + MaxNew

(* C23: a shift of x whose offset, x.offset + delta, is not -1/2, 0 or 1/2
   fails, returns no object, and leaves the intern table with the entries
   it had *)
C23_ShiftOutOfRange ==
    (last.op = "add" /\ last.x.v.offset + last.delta \notin {-1, 0, 1}) =>
        /\ ~last.ok
        /\ last.obj = NoObj
        /\ DIM_INSTANCES = last.before

(* C25: every symbol that a construction, a shift or a negation has
   returned has its axis in {0, 1, 2}, its offset in {-1/2, 0, 1/2} and its
   direction in {-1, 1}; a construction with an axis, an offset or a
   direction that is not in these sets fails and adds nothing to the
   intern table *)
C25_SymbolRanges ==
    /\ \A o \in GridDims(heap) :
          /\ o.v.axis \in {0, 1, 2}
          /\ o.v.offset \in {-1, 0, 1}
          /\ o.v.direction \in {-1, 1}
    /\ (/\ last.op = "make"
        /\ last.cls = "AbstractGridDim"
        /\ \/ last.args[2] \notin {H(0), H(1), H(2)}
           \/ (Len(last.args) >= 3 /\ last.args[3] \notin {-1, 0, 1})
           \/ (Len(last.args) >= 4 /\ last.args[4] \notin {Some(H(-1)), Some(H(1))}))
       => (~last.ok /\ DIM_INSTANCES = last.before)

(* C26: a construction call that returns an object returns one of the class
   that was called: DataDim(name, size, ...) a data dimension with that name
   and size, AbstractGridDim(name, axis, ...) a symbol with that name and
   axis, whatever was constructed before *)
C26_ClassOfTheCall ==
    (last.op = "make" /\ last.ok) =>
        /\ last.obj.v.cls = last.cls
        /\ last.obj.v.name = last.args[1]
        /\ last.cls = "DataDim" => last.obj.v.size = last.args[2] \div 2
        /\ last.cls = "AbstractGridDim" => last.obj.v.axis = last.args[2] \div 2

----------------------------------------------------------------------------
(* Failed acquisitions, coordinates, components and the stencil registry *)

\* whether a step is a managed_temporary_storage call that raised while it
\* was acquiring
IsFailedEnterStorage ==
    /\ last'.op = "enter_storage"
    /\ ~last'.ok

(* C27: a scoped acquisition that fails while it is acquiring, a requested
   grid_dims not being a key of the computational grid, leaves every list of
   the pool with the storages it had before the call: what was popped for the
   earlier pairs of the request is not lost *)
C27_FailedAcquisitionKeepsPool ==
    [][IsFailedEnterStorage =>
          \A grid_hash \in DOMAIN TEMPORARY_STORAGE_POOL \cup DOMAIN TEMPORARY_STORAGE_POOL' :
              Bucket(TEMPORARY_STORAGE_POOL', grid_hash)
                  = Bucket(TEMPORARY_STORAGE_POOL, grid_hash)]_vars

(* C28: every call of the allocator zeros whose grid_dims is a key of the
   computational grid builds a Field, and each coordinate array of the Field
   has as many entries as the buffer has along that axis: size + |padding|
   for a grid axis, size for a data dimension, of direction +1 or -1 *)
C28_CoordsFitBuffer ==
    (/\ last.op = "zeros"
     /\ Grids_getitem(computational_grid, last.grid_dims).ok) =>
        /\ last.r.ok
        /\ Len(last.r.field.coords) = Len(last.r.field.data.shape)
        /\ \A k \in 1 .. Len(last.r.field.coords) :
               Len(last.r.field.coords[k]) = last.r.field.data.shape[k]
        /\ \A i \in 1 .. Len(last.data_dims) :
               Len(last.r.field.coords[Len(last.grid_dims) + i])
                   = last.data_dims[i].v.size

----------------------------------------------------------------------------
(* Components over a computational grid: framework/components.py *)

\* a dict as the list of its items in insertion order: its keys, d[key] and
\* d.get(key, default)
dict_keys(d) == {d[i].key : i \in 1 .. Len(d)}
dict_getitem(d, key) == d[CHOOSE i \in 1 .. Len(d) : d[i].key = key].value
dict_get(d, key, default) ==
    IF key \in dict_keys(d) THEN dict_getitem(d, key) ELSE default

\* field_prop.get("data_dims", ()) of one entry
entry_data_dims(field_prop) ==
    IF "data_dims" \in DOMAIN field_prop THEN field_prop.data_dims ELSE <<>>

\* the loop body of fill_properties_with_dims: the entry with its "dims", or
\* the AssertionError of an entry without "grid_dims", or the KeyError of the
\* lookup
fill_entry(cg, field_prop) ==
    IF "grid_dims" \notin DOMAIN field_prop
    THEN [ok |-> FALSE, error |-> [type |-> "AssertionError"]]
    ELSE LET g == Grids_getitem(cg, field_prop.grid_dims)
             data_dims == entry_data_dims(field_prop)
         IN  IF ~g.ok THEN [ok |-> FALSE, error |-> g.error]
             ELSE [ok |-> TRUE,
                   field_prop |->
                     [k \in DOMAIN field_prop \cup {"dims"} |->
                        IF k = "dims"
                        THEN g.grid.dim_names
                               \o [i \in 1 .. Len(data_dims) |-> DataDim_repr(data_dims[i])]
                        ELSE field_prop[k]]]

\* fill_properties_with_dims from the i-th item on: the entries are changed
\* in place, so an error leaves the earlier ones with their "dims"
RECURSIVE fill_properties_with_dims_From(_, _, _)
fill_properties_with_dims_From(cg, props, i) ==
    IF i > Len(props) THEN [ok |-> TRUE, properties |-> props]
    ELSE LET r == fill_entry(cg, props[i].value) IN
         IF ~r.ok THEN [ok |-> FALSE, error |-> r.error, properties |-> props]
         ELSE fill_properties_with_dims_From(
                  cg, [props EXCEPT ![i].value = r.field_prop], i + 1)

\* ComputationalGridComponent.fill_properties_with_dims
fill_properties_with_dims(cg, props) == fill_properties_with_dims_From(cg, props, 1)

\* ComputationalGridComponent.allocate: data_dims and dtype_name are read from
\* properties, the dict of the fields, where "data_dims" is the entry of a
\* field of that name (an entry is never empty here; gt_zeros then fails on
\* dim.size, dim a key of the entry) and no field is named "dtype_name"
allocate(cg, name, props) ==
    LET data_dims == dict_get(props, "data_dims", <<>>)
        dtype_name == dict_get(props, "dtype_name", "float")
    IN  IF name \notin dict_keys(props)
        THEN [ok |-> FALSE, error |-> [type |-> "KeyError", key |-> name]]
        ELSE LET field_prop == dict_getitem(props, name) IN
             IF "grid_dims" \notin DOMAIN field_prop
             THEN [ok |-> FALSE, error |-> [type |-> "KeyError", key |-> "grid_dims"]]
             ELSE IF "data_dims" \in dict_keys(props)
             THEN LET g == Grids_getitem(cg, field_prop.grid_dims) IN
                  IF g.ok THEN [ok |-> FALSE, error |-> [type |-> "AttributeError"]]
                  ELSE [ok |-> FALSE, error |-> g.error]
             ELSE gt_zeros(cg, field_prop.grid_dims, data_dims, dtype_name)

\* the entries the property dictionaries are made of: "units" always, the
\* other keys present or not; (J,) is not a key of the computational grid
EntryKeys == {keys \in SUBSET {"grid_dims", "data_dims", "dtype_name", "units"} :
                 "units" \in keys}
EntryGridDims ==
    {<<Interned(<<"I", H(0)>>), Interned(<<"J", H(1)>>), Interned(<<"K", H(2)>>)>>,
     <<Interned(<<"K", H(2)>>)>>, <<Interned(<<"J", H(1)>>)>>}
EntryDataDims ==
    {<<Interned(<<"D", H(2)>>)>>,
     <<Interned(<<"D", H(2)>>), Interned(<<"E", H(3), H(-1)>>)>>}
Entries ==
    {[k \in keys |-> CASE k = "grid_dims" -> g
                       [] k = "data_dims" -> d
                       [] k = "dtype_name" -> "int"
                       [] OTHER -> "1"] :
        keys \in EntryKeys, g \in EntryGridDims, d \in EntryDataDims}

\* the names of the fields, and the dictionaries of one or two fields
FieldNames == {"f", "data_dims"}
PropertyDicts ==
    {<<[key |-> n, value |-> v]>> : n \in FieldNames, v \in Entries}
    \cup {d \in {<<[key |-> n, value |-> v], [key |-> m, value |-> w]>> :
                      n \in FieldNames, m \in FieldNames, v \in Entries, w \in Entries} :
             d[1].key # d[2].key}

InitComponent ==
    /\ \E s \in {Built} : DIM_INSTANCES = s.tab /\ heap = s.heap
    /\ last = [op |-> "import"]
    /\ NoGrid
    /\ computational_grid = ComputationalGrid_init(PoolGridConfig)
    /\ arrays = <<>>
    /\ TEMPORARY_STORAGE_POOL = <<>>
    /\ scopes = <<>>
    /\ properties \in PropertyDicts
    /\ STENCIL_COLLECTION = <<>>
    /\ decorators = <<>>

\* component.fill_properties_with_dims(properties), once and once more
FillProperties ==
    /\ \/ last.op = "import"
       \/ last.op = "fill" /\ last.ok /\ last.n = 1
    /\ LET r == fill_properties_with_dims(computational_grid, properties) IN
       /\ properties' = r.properties
       /\ last' = [op |-> "fill", ok |-> r.ok, before |-> properties,
                   n |-> IF last.op = "import" THEN 1 ELSE 2]
    /\ UNCHANGED <<dimVars, gridVars, poolVars, stencilVars>>

\* component.allocate(name, properties) for the properties filled before
Allocate ==
    /\ last.op = "fill"
    /\ last.ok
    /\ \E name \in FieldNames :
          last' = [op |-> "allocate", name |-> name,
                   r |-> allocate(computational_grid, name, properties)]
    /\ UNCHANGED <<dimVars, gridVars, poolVars, frameworkVars>>

NextComponent ==
    \/ FillProperties
    \/ Allocate

SpecComponent == InitComponent /\ [][NextComponent]_vars

\* the grid an entry is defined over
EntryGrid(field_prop) == Grids_getitem(computational_grid, field_prop.grid_dims).grid

(* C24: fill_properties_with_dims sets the "dims" of every entry of the
   dictionary to the dim_names of the grid under the entry's "grid_dims"
   followed by the name of each data dimension the entry declares, none
   when it declares none; it changes no other key of an entry, and a second
   application leaves the dictionary as the first one left it *)
C24_DimsFilled ==
    (last.op = "fill" /\ last.ok) =>
        /\ Len(properties) = Len(last.before)
        /\ \A i \in 1 .. Len(properties) :
              LET was == last.before[i].value
                  now == properties[i].value
                  data_dims == entry_data_dims(was)
              IN  /\ properties[i].key = last.before[i].key
                  /\ DOMAIN now = DOMAIN was \cup {"dims"}
                  /\ \A k \in DOMAIN was \ {"dims"} : now[k] = was[k]
                  /\ now.dims = EntryGrid(was).dim_names
                                  \o [j \in 1 .. Len(data_dims) |->
                                        <<data_dims[j].v.name>>]
        /\ last.n = 2 => properties = last.before

(* C29: for a dictionary that fill_properties_with_dims has processed,
   allocate(name, properties) for a field of the dictionary returns an array
   with as many axes as properties[name]["dims"] has names, the storage shape
   of the grid followed by the sizes of the data dimensions the entry
   declares, and of the dtype the entry declares, float when it declares
   none *)
C29_AllocateAsDeclared ==
    (last.op = "allocate" /\ last.name \in dict_keys(properties)) =>
        LET field_prop == dict_getitem(properties, last.name)
            data_dims == entry_data_dims(field_prop)
        IN  /\ last.r.ok
            /\ Len(last.r.array.shape) = Len(field_prop.dims)
            /\ last.r.array.shape =
                   Grid_get_storage_shape(EntryGrid(field_prop))
                       \o [j \in 1 .. Len(data_dims) |-> data_dims[j].v.size]
            /\ last.r.array.dtype =
                   (IF "dtype_name" \in DOMAIN field_prop THEN field_prop.dtype_name
                    ELSE "float")

----------------------------------------------------------------------------
(* The registry of stencil definitions: stencil.py, framework/stencil.py *)

\* the names the stencils are registered under and the definitions
StencilNames == {"a", "b"}
Definitions == {"definition1", "definition2"}

\* stencil_collection(name): the RuntimeError of a name that is registered,
\* or the decorator core, a closure over name
stencil_collection(coll, name) ==
    IF name \in DOMAIN coll
    THEN [ok |-> FALSE, error |-> [type |-> "RuntimeError", name |-> name]]
    ELSE [ok |-> TRUE, core |-> name]

\* core(definition), core the decorator made for name:
\* STENCIL_COLLECTION[name] = {"definition": definition}
core(coll, name, definition) == (name :> [definition |-> definition]) @@ coll

\* compile_stencil(name, ...) up to the call of gtscript.stencil: the
\* definition that is compiled, or the RuntimeError of an unknown name
compile_stencil(coll, name) ==
    IF name \notin DOMAIN coll
    THEN [ok |-> FALSE, error |-> [type |-> "RuntimeError", name |-> name]]
    ELSE [ok |-> TRUE, definition |-> coll[name].definition]

InitStencil ==
    /\ DIM_INSTANCES = Imported.tab
    /\ heap = Imported.heap
    /\ last = [op |-> "import"]
    /\ NoGrid
    /\ NoPool
    /\ NoFramework

\* decorator = stencil_collection(name)
StencilCollection ==
    /\ \E name \in StencilNames :
          LET r == stencil_collection(STENCIL_COLLECTION, name) IN
          /\ r.ok => Len(decorators) < MaxDecorators
          /\ decorators' = IF r.ok THEN Append(decorators, r.core) ELSE decorators
          /\ last' = [op |-> "stencil_collection", name |-> name, ok |-> r.ok, r |-> r]
    /\ UNCHANGED <<dimVars, gridVars, poolVars, properties, STENCIL_COLLECTION>>

\* decorator(definition) for a decorator made before, as @decorator does
ApplyDecorator ==
    /\ \E i \in 1 .. Len(decorators), definition \in Definitions :
          /\ STENCIL_COLLECTION' = core(STENCIL_COLLECTION, decorators[i], definition)
          /\ last' = [op |-> "core", name |-> decorators[i], definition |-> definition]
    /\ UNCHANGED <<dimVars, gridVars, poolVars, properties, decorators>>

\* compile_stencil(name, gt4py_config)
CompileStencil ==
    /\ \E name \in StencilNames :
          last' = [op |-> "compile_stencil", name |-> name,
                   r |-> compile_stencil(STENCIL_COLLECTION, name)]
    /\ UNCHANGED <<dimVars, gridVars, poolVars, frameworkVars>>

NextStencil ==
    \/ StencilCollection
    \/ ApplyDecorator
    \/ CompileStencil

SpecStencil == InitStencil /\ [][NextStencil]_vars

(* C30: the registry never replaces a registered definition: whatever
   decorators are made and applied, a name that is registered stays
   registered with the definition it has, the first one registered under
   it; stencil_collection(name) fails for a registered name, and
   compile_stencil(name) for a name that is not registered fails with an
   error that carries the name *)
C30_RegistryKeepsFirst ==
    [][/\ \A name \in DOMAIN STENCIL_COLLECTION :
              /\ name \in DOMAIN STENCIL_COLLECTION'
              /\ STENCIL_COLLECTION'[name] = STENCIL_COLLECTION[name]
       /\ (last'.op = "stencil_collection" /\ last'.name \in DOMAIN STENCIL_COLLECTION)
              => ~last'.ok /\ last'.r.error.name = last'.name
       /\ (last'.op = "compile_stencil" /\ last'.name \notin DOMAIN STENCIL_COLLECTION)
              => ~last'.r.ok /\ last'.r.error.name = last'.name]_vars

====
